---- MODULE Spec2Model ----
(***************************************************************************)
(* Model of the memory-retention scheduler of src/main.cpp: Concept,       *)
(* MinHeap and MemoryGraph.                                                *)
(*                                                                         *)
(* Strengths, weights and boosts are doubles in the source; here they are  *)
(* integers counting tenths (1.0 is 10, 0.4 is 4, 0.1 is 1), and a product *)
(* is rounded down to a tenth. Decay rates count hundredths (0.15 is 15).  *)
(* std::exp is the table ExpTable, exp(-0.15 k) rounded to hundredths.     *)
(* The unordered_map's iteration order is unspecified: every loop over     *)
(* `concepts` runs over a nondeterministically chosen order of its keys.   *)
(* Indices of the heap's backing array are 0-based as in the source; the   *)
(* sequence that holds it is 1-based, hence the "+ 1" in At and Swap.      *)
(***************************************************************************)
EXTENDS Integers, Sequences, FiniteSets, TLC

VARIABLES
    concepts,          \* MemoryGraph::concepts, id -> Concept (DOMAIN = ids present)
    graph,             \* MemoryGraph::graph, id -> prerequisite list
    priority_queue,    \* MemoryGraph::priority_queue, the MinHeap's backing array
    current_day,       \* MemoryGraph::current_day
    lambda,            \* MemoryGraph::lambda, in hundredths
    total_revisions,   \* MemoryGraph::total_revisions
    error              \* what() of the exception the last call threw, "" if it returned

vars == <<concepts, graph, priority_queue, current_day, lambda, total_revisions, error>>

graphState == <<concepts, graph, priority_queue, current_day, lambda, total_revisions>>

----------------------------------------------------------------------------
(* Bounds of the model *)

MaxDay == 1          \* current_day stays in 0 .. MaxDay
MaxRevisions == 1    \* total_revisions stays <= MaxRevisions
MaxHeapLen == 4      \* a MinHeap driven on its own holds <= MaxHeapLen entries

(* Program constants: strengths in tenths, rates in hundredths *)

MinStrength == 1         \* 0.1, the lower clamp of calculateMemory
MaxStrength == 10        \* 1.0, the upper clamp of calculateMemory and of revise
DefaultBoost == 4        \* 0.4, the default boost of reviseConcept
NeighborBoost == 1       \* 0.1, the boost of a connected concept
DefaultDecayRate == 15   \* 0.15, the decay rate the graph is built with
UrgentThreshold == 3     \* 0.3, below which getUrgentCount counts a concept
RateStep == DefaultDecayRate   \* the decay rates of the model are multiples of 0.15

(* Inputs *)

Ids == {"a", "b"}                         \* the ids the calls are made with
InitWeights == {0, MaxStrength}           \* initial_weight: 0.0 and 1.0
Boosts == {DefaultBoost}
Rates == {0, RateStep}                    \* setDecayRate: 0.0 and 0.15
DaySteps == -1 .. 1                       \* simulateTimePassage: days
Counts == -1 .. (Cardinality(Ids) + 1)    \* getTopRevisionRecommendations: count

(* A prerequisite list is empty, names "a" once or names "b" twice *)
PrereqLists == {<<>>, <<"a">>, <<"b", "b">>}

(* insertConcept is not called while the heap holds more entries than there *)
(* are ids: at most one entry of an overwritten concept is in the heap      *)
HeapCapacity == Cardinality(Ids) + 1

(* Every order in which a loop may visit the keys of an unordered_map *)
Orders(S) ==
    {f \in [1 .. Cardinality(S) -> S] : \A i, j \in 1 .. Cardinality(S) : i # j => f[i] # f[j]}

Contains(seq, x) == \E i \in 1 .. Len(seq) : seq[i] = x

Min2(x, y) == IF x < y THEN x ELSE y

(* The messages of the exceptions the code throws; NoError is a call that returned *)
NoError == ""
NotFound(id) == "Concept not found: " \o id
HeapIsEmpty == "Heap is empty"

----------------------------------------------------------------------------
(* std::exp(-lambda * days), in hundredths: lambda * days is a multiple of *)
(* RateStep hundredths, and ExpTable[k + 13] = exp(-0.15 k) for k in       *)
(* -12 .. 12.                                                              *)

ExpTable ==
    << 605, 521, 448, 386, 332, 286, 246, 212, 182, 157, 135, 116,
       100,
       86, 74, 64, 55, 47, 41, 35, 30, 26, 22, 19, 17 >>

ExpNeg(rate, days) == ExpTable[((rate * days) \div RateStep) + 13]

----------------------------------------------------------------------------
(* Concept *)

NewConcept(id, initial_weight, last_revised_day, prereqs) ==
    [ id               |-> id,
      initial_weight   |-> initial_weight,
      memory_strength  |-> initial_weight,
      last_revised_day |-> last_revised_day,
      prerequisites    |-> prereqs ]

(* A decay computed from the current strength instead of the baseline *)
calculateMemoryCompounding(c, day, rate) ==
    LET days_since_revision == day - c.last_revised_day
        decay == (c.memory_strength * ExpNeg(rate, days_since_revision)) \div 100
    IN  IF decay < MinStrength THEN MinStrength
        ELSE IF decay > MaxStrength THEN MaxStrength
        ELSE decay

calculateMemory(c, day, rate) ==
    LET days_since_revision == day - c.last_revised_day
        decay == (c.initial_weight * ExpNeg(rate, days_since_revision)) \div 100
    IN  IF decay < MinStrength THEN MinStrength
        ELSE IF decay > MaxStrength THEN MaxStrength
        ELSE decay

updateMemoryStrength(c, day, rate) ==
    [c EXCEPT !.memory_strength = calculateMemory(c, day, rate)]

revise(c, day, boost) ==
    LET s == Min2(MaxStrength, c.memory_strength + boost)
    IN  [c EXCEPT !.memory_strength = s,
                  !.initial_weight = s,
                  !.last_revised_day = day]

----------------------------------------------------------------------------
(* MinHeap *)

HeapNode(id, strength) == [concept_id |-> id, memory_strength |-> strength]

At(h, i) == h[i + 1]

Swap(h, i, j) == [h EXCEPT ![i + 1] = h[j + 1], ![j + 1] = h[i + 1]]

RECURSIVE heapifyUp(_, _)
heapifyUp(h, index) ==
    LET parent == (index - 1) \div 2
    IN  IF index > 0 /\ At(h, parent).memory_strength > At(h, index).memory_strength
        THEN heapifyUp(Swap(h, parent, index), parent)
        ELSE h

RECURSIVE heapifyDown(_, _)
heapifyDown(h, index) ==
    LET left  == 2 * index + 1
        right == 2 * index + 2
        m1 == IF left < Len(h)
                 /\ At(h, left).memory_strength < At(h, index).memory_strength
              THEN left ELSE index
        minIndex == IF right < Len(h)
                       /\ At(h, right).memory_strength < At(h, m1).memory_strength
                    THEN right ELSE m1
    IN  IF minIndex # index
        THEN heapifyDown(Swap(h, index, minIndex), minIndex)
        ELSE h

insert(h, id, strength) ==
    heapifyUp(Append(h, HeapNode(id, strength)), Len(h))

(* peekMin's outcome: the exception it throws, or the id it returns *)
peekMin(h) ==
    IF Len(h) = 0 THEN [err |-> HeapIsEmpty, id |-> ""]
    ELSE [err |-> NoError, id |-> At(h, 0).concept_id]

isEmpty(h) == Len(h) = 0

(* An extraction that moves the last entry to the root and leaves it there *)
extractMinWithoutSift(h) ==
    IF Len(h) = 0 THEN [err |-> HeapIsEmpty, id |-> "", heap |-> h]
    ELSE [err  |-> NoError,
          id   |-> At(h, 0).concept_id,
          heap |-> SubSeq([h EXCEPT ![1] = h[Len(h)]], 1, Len(h) - 1)]

(* extractMin's outcome: the exception it throws or the id it returns, and   *)
(* the backing array it leaves                                              *)
extractMin(h) ==
    IF Len(h) = 0 THEN [err |-> HeapIsEmpty, id |-> "", heap |-> h]
    ELSE LET min_id == At(h, 0).concept_id
             moved  == [h EXCEPT ![1] = h[Len(h)]]
             popped == SubSeq(moved, 1, Len(h) - 1)
         IN  [err  |-> NoError,
              id   |-> min_id,
              heap |-> IF Len(popped) # 0 THEN heapifyDown(popped, 0) ELSE popped]

(* A key update that only ever sifts the entry up *)
updateKeyUpOnly(h, id, new_strength) ==
    LET found == {i \in 0 .. Len(h) - 1 : At(h, i).concept_id = id}
    IN  IF found = {} THEN h
        ELSE LET i == CHOOSE k \in found : \A m \in found : k <= m
             IN  heapifyUp([h EXCEPT ![i + 1].memory_strength = new_strength], i)

updateKey(h, id, new_strength) ==
    LET found == {i \in 0 .. Len(h) - 1 : At(h, i).concept_id = id}
    IN  IF found = {} THEN h
        ELSE LET i == CHOOSE k \in found : \A m \in found : k <= m
                 old_strength == At(h, i).memory_strength
                 h1 == [h EXCEPT ![i + 1].memory_strength = new_strength]
             IN  IF new_strength < old_strength
                 THEN heapifyUp(h1, i)
                 ELSE heapifyDown(h1, i)

RECURSIVE rebuildFrom(_, _)
rebuildFrom(h, i) ==
    IF i < 0 THEN h ELSE rebuildFrom(heapifyDown(h, i), i - 1)

rebuild(data) == rebuildFrom(data, (Len(data) \div 2) - 1)

----------------------------------------------------------------------------
(* MemoryGraph *)

Init ==
    /\ concepts = <<>>
    /\ graph = <<>>
    /\ priority_queue = <<>>
    /\ current_day = 0
    /\ lambda = DefaultDecayRate
    /\ total_revisions = 0
    /\ error = NoError

(* The heap rebuilt from the concepts, visited in `order` *)
rebuildPriorityQueue(cs, order) ==
    rebuild([i \in 1 .. Len(order) |-> HeapNode(order[i], cs[order[i]].memory_strength)])

Put(f, k, v) == [x \in (DOMAIN f) \cup {k} |-> IF x = k THEN v ELSE f[x]]

InsertConcept(id, initial_weight, prereqs) ==
    /\ Len(priority_queue) < HeapCapacity
    /\ concepts' = Put(concepts, id, NewConcept(id, initial_weight, current_day, prereqs))
    /\ graph' = Put(graph, id, prereqs)
    /\ priority_queue' = insert(priority_queue, id, initial_weight)
    /\ error' = NoError
    /\ UNCHANGED <<current_day, lambda, total_revisions>>

Refreshed(cs, day, rate) ==
    [x \in DOMAIN cs |-> updateMemoryStrength(cs[x], day, rate)]

UpdateMemoryStrengths ==
    /\ UNCHANGED <<graph, current_day, lambda, total_revisions>>
    /\ error' = NoError
    /\ concepts' = Refreshed(concepts, current_day, lambda)
    /\ \E order \in Orders(DOMAIN concepts) :
          priority_queue' = rebuildPriorityQueue(concepts', order)

SimulateTimePassage(days) ==
    /\ current_day + days \in 0 .. MaxDay
    /\ current_day' = current_day + days
    /\ UNCHANGED <<graph, lambda, total_revisions>>
    /\ error' = NoError
    /\ concepts' = Refreshed(concepts, current_day', lambda)
    /\ \E order \in Orders(DOMAIN concepts) :
          priority_queue' = rebuildPriorityQueue(concepts', order)

SetDecayRate(rate) ==
    /\ lambda' = rate
    /\ error' = NoError
    /\ UNCHANGED <<concepts, graph, priority_queue, current_day, total_revisions>>

(* A connection test that follows the target's own list only *)
isConnectedForward(other, concept, concept_id) ==
    Contains(concept.prerequisites, other.id)

(* A connection test that takes every concept for a neighbour *)
isConnectedToAll(other, concept, concept_id) == TRUE

isConnected(other, concept, concept_id) ==
    \/ Contains(other.prerequisites, concept_id)
    \/ Contains(concept.prerequisites, other.id)

(* A neighbour boost that forgets to move the decay baseline *)
boostNeighbourStrengthOnly(other) ==
    [other EXCEPT !.memory_strength = Min2(MaxStrength, other.memory_strength + NeighborBoost)]

boostNeighbour(other) ==
    LET s == Min2(MaxStrength, other.memory_strength + NeighborBoost)
    IN  [other EXCEPT !.memory_strength = s, !.initial_weight = s]

(* The neighbour pass of reviseConcept: the concepts are visited in `order`; *)
(* cs and h are the concepts and the heap after the first i - 1 of them.    *)
RECURSIVE boostConnected(_, _, _, _, _)
boostConnected(cs, h, order, i, concept_id) ==
    IF i > Len(order) THEN <<cs, h>>
    ELSE LET other == cs[order[i]]
         IN  IF isConnected(other, cs[concept_id], concept_id)
             THEN LET boosted == boostNeighbour(other)
                  IN  boostConnected([cs EXCEPT ![order[i]] = boosted],
                                     updateKey(h, other.id, boosted.memory_strength),
                                     order, i + 1, concept_id)
             ELSE boostConnected(cs, h, order, i + 1, concept_id)

(* reviseConcept from the lookup on: the id is in the map *)
reviseFound(concept_id, boost) ==
    /\ total_revisions < MaxRevisions
    /\ total_revisions' = total_revisions + 1
    /\ UNCHANGED <<graph, current_day, lambda>>
    /\ error' = NoError
    /\ \E order \in Orders(DOMAIN concepts) :
          LET revised == revise(concepts[concept_id], current_day, boost)
              cs1 == [concepts EXCEPT ![concept_id] = revised]
              h1  == updateKey(priority_queue, concept_id, revised.memory_strength)
              st  == boostConnected(cs1, h1, order, 1, concept_id)
          IN  /\ concepts' = st[1]
              /\ priority_queue' = st[2]

(* A reviseConcept that counts the revision before it looks the id up *)
ReviseConceptCountingFirst(concept_id, boost) ==
    IF concept_id \notin DOMAIN concepts
    THEN /\ error' = NotFound(concept_id)
         /\ total_revisions' = total_revisions + 1
         /\ UNCHANGED <<concepts, graph, priority_queue, current_day, lambda>>
    ELSE reviseFound(concept_id, boost)

ReviseConcept(concept_id, boost) ==
    IF concept_id \notin DOMAIN concepts
    THEN /\ error' = NotFound(concept_id)
         /\ UNCHANGED graphState
    ELSE reviseFound(concept_id, boost)

(* A recommendation that peeks without asking whether the heap is empty *)
getNextRevisionRecommendationUnguarded(h) == peekMin(h)

(* A query returns a value and writes nothing: the value it returns is the  *)
(* operator named as in the source, and its action records only whether it  *)
(* threw.                                                                   *)
getNextRevisionRecommendation(h) ==
    IF isEmpty(h) THEN [err |-> NoError, id |-> ""] ELSE peekMin(h)

(* A recommendation that takes the weakest entry out of the heap *)
GetNextRevisionRecommendationExtracting ==
    /\ error' = NoError
    /\ priority_queue' = extractMin(priority_queue).heap
    /\ UNCHANGED <<concepts, graph, current_day, lambda, total_revisions>>

GetNextRevisionRecommendation ==
    /\ error' = getNextRevisionRecommendation(priority_queue).err
    /\ UNCHANGED graphState

(* The sort below with the comparator turned round *)
RECURSIVE insertSortedDescending(_, _)
insertSortedDescending(sorted, item) ==
    IF sorted = <<>> THEN <<item>>
    ELSE IF item.memory_strength > Head(sorted).memory_strength
         THEN <<item>> \o sorted
         ELSE <<Head(sorted)>> \o insertSortedDescending(Tail(sorted), item)

(* std::sort with the comparator a.second < b.second: an insertion sort of  *)
(* the pairs taken in the map's iteration order (the order of equal         *)
(* strengths is whatever that order makes it).                              *)
RECURSIVE insertSorted(_, _)
insertSorted(sorted, item) ==
    IF sorted = <<>> THEN <<item>>
    ELSE IF item.memory_strength < Head(sorted).memory_strength
         THEN <<item>> \o sorted
         ELSE <<Head(sorted)>> \o insertSorted(Tail(sorted), item)

RECURSIVE sortByStrength(_)
sortByStrength(items) ==
    IF items = <<>> THEN <<>>
    ELSE insertSorted(sortByStrength(SubSeq(items, 1, Len(items) - 1)), items[Len(items)])

getTopRevisionRecommendations(cs, order, count) ==
    LET sorted_concepts ==
            sortByStrength([i \in 1 .. Len(order) |->
                               HeapNode(order[i], cs[order[i]].memory_strength)])
        limit == Min2(count, Len(sorted_concepts))
    IN  [i \in 1 .. limit |-> sorted_concepts[i].concept_id]

GetTopRevisionRecommendations(count) ==
    /\ error' = NoError
    /\ UNCHANGED graphState

getCurrentDay(day) == day

GetCurrentDay ==
    /\ error' = NoError
    /\ UNCHANGED graphState

getTotalRevisions(revisions) == revisions

GetTotalRevisions ==
    /\ error' = NoError
    /\ UNCHANGED graphState

getTotalConcepts(cs) == Cardinality(DOMAIN cs)

GetTotalConcepts ==
    /\ error' = NoError
    /\ UNCHANGED graphState

(* The sum of the strengths of the first i concepts of `order` *)
RECURSIVE sumStrengths(_, _, _)
sumStrengths(cs, order, i) ==
    IF i = 0 THEN 0 ELSE sumStrengths(cs, order, i - 1) + cs[order[i]].memory_strength

(* sum / concepts.size(), rounded down to a tenth *)
getAverageMemoryStrength(cs, order) ==
    IF DOMAIN cs = {} THEN 0
    ELSE sumStrengths(cs, order, Len(order)) \div Cardinality(DOMAIN cs)

GetAverageMemoryStrength ==
    /\ error' = NoError
    /\ UNCHANGED graphState

getUrgentCount(cs) ==
    Cardinality({x \in DOMAIN cs : cs[x].memory_strength < UrgentThreshold})

GetUrgentCount ==
    /\ error' = NoError
    /\ UNCHANGED graphState

Next ==
    \/ \E id \in Ids, w \in InitWeights, p \in PrereqLists : InsertConcept(id, w, p)
    \/ \E d \in DaySteps : SimulateTimePassage(d)
    \/ UpdateMemoryStrengths
    \/ \E r \in Rates : SetDecayRate(r)
    \/ \E id \in Ids, b \in Boosts : ReviseConcept(id, b)
    \/ GetNextRevisionRecommendation
    \/ \E n \in Counts : GetTopRevisionRecommendations(n)

Spec == Init /\ [][Next]_vars

(* The graph with its statistics asked for as well: the const getters reach *)
(* no state that Next does not reach                                        *)
QueryNext ==
    \/ Next
    \/ GetAverageMemoryStrength
    \/ GetUrgentCount
    \/ GetTotalConcepts
    \/ GetTotalRevisions
    \/ GetCurrentDay

QuerySpec == Init /\ [][QueryNext]_vars

----------------------------------------------------------------------------
(* MinHeap on its own: priority_queue driven through MinHeap's interface    *)
(* with any ids and strengths, the rest of the graph left as constructed    *)

HeapStrengths == 0 .. 2    \* strengths given to insert, updateKey and rebuild

(* rebuild's argument: any strengths, the i-th pair named "a" or "b" in turn *)
HeapData ==
    UNION {{[i \in 1 .. n |-> HeapNode(IF i % 2 = 1 THEN "a" ELSE "b", f[i])]
               : f \in [1 .. n -> HeapStrengths]} : n \in 0 .. MaxHeapLen}

HeapRest == <<concepts, graph, current_day, lambda, total_revisions>>

HeapInsert(id, strength) ==
    /\ Len(priority_queue) < MaxHeapLen
    /\ priority_queue' = insert(priority_queue, id, strength)
    /\ error' = NoError
    /\ UNCHANGED HeapRest

HeapExtractMin ==
    /\ priority_queue' = extractMin(priority_queue).heap
    /\ error' = extractMin(priority_queue).err
    /\ UNCHANGED HeapRest

HeapPeekMin ==
    /\ error' = peekMin(priority_queue).err
    /\ UNCHANGED <<priority_queue, HeapRest>>

HeapUpdateKey(id, new_strength) ==
    /\ priority_queue' = updateKey(priority_queue, id, new_strength)
    /\ error' = NoError
    /\ UNCHANGED HeapRest

HeapRebuild(data) ==
    /\ priority_queue' = rebuild(data)
    /\ error' = NoError
    /\ UNCHANGED HeapRest

HeapNext ==
    \/ \E id \in Ids, st \in HeapStrengths : HeapInsert(id, st)
    \/ HeapExtractMin
    \/ HeapPeekMin
    \/ \E id \in Ids, st \in HeapStrengths : HeapUpdateKey(id, st)
    \/ \E data \in HeapData : HeapRebuild(data)

HeapSpec == Init /\ [][HeapNext]_vars

----------------------------------------------------------------------------
(* What the claims speak of *)

Present == DOMAIN concepts

Strength(id) == concepts[id].memory_strength

Lists(a, b) == Contains(concepts[a].prerequisites, b)

Max2(x, y) == IF x > y THEN x ELSE y

Clamp(x, lo, hi) == Max2(lo, Min2(x, hi))

EntriesOf(id) == {i \in 1 .. Len(priority_queue) : priority_queue[i].concept_id = id}

SomeRevision(id) == \E b \in Boosts : ReviseConcept(id, b)

Recomputation == UpdateMemoryStrengths \/ \E d \in DaySteps : SimulateTimePassage(d)

----------------------------------------------------------------------------
(* C1: after any sequence of public operations the priority structure      *)
(* holds exactly one entry for each id of the concept map and no other      *)
(* entry, so its size is the number of concepts.                            *)
C1_OneEntryPerConcept ==
    /\ Len(priority_queue) = Cardinality(Present)
    /\ \A id \in Present : Cardinality(EntriesOf(id)) = 1
    /\ \A i \in 1 .. Len(priority_queue) : priority_queue[i].concept_id \in Present

(* C2: with at least one concept in the graph,                              *)
(* getNextRevisionRecommendation() returns the id of a concept whose        *)
(* memory_strength is <= that of every concept of the graph.                *)
C2_NextIsWeakest ==
    Present # {} =>
        LET r == getNextRevisionRecommendation(priority_queue)
        IN  /\ r.err = NoError
            /\ r.id \in Present
            /\ \A x \in Present : Strength(r.id) <= Strength(x)

(* C3: reviseConcept(id) with an id absent from the concept map fails with  *)
(* "Concept not found: <id>" and leaves the concepts, the priority structure,     *)
(* current_day, lambda and total_revisions as they were.                    *)
C3_UnknownIdChangesNothing ==
    [][\A id \in Ids :
          (id \notin Present /\ SomeRevision(id))
              => (error' = NotFound(id) /\ UNCHANGED graphState)]_vars

(* "b" was looked up in a graph that holds "a" alone *)
C3_Witness ==
    /\ error = NotFound("b")
    /\ Present = {"a"}

(* C4: for distinct concepts A and B of the graph where A's prerequisite    *)
(* list contains B's id (once or several times, B listing A or not), a      *)
(* successful reviseConcept(A) sets B.memory_strength to                    *)
(* min(1.0, old + 0.1), once, sets B.initial_weight to that value and       *)
(* leaves B.last_revised_day unchanged.                                     *)
C4_PrerequisiteBoostedOnce ==
    [][\A A \in Ids, B \in Ids :
          (A # B /\ A \in Present /\ B \in Present /\ Lists(A, B) /\ SomeRevision(A))
              => /\ concepts'[B].memory_strength = Min2(MaxStrength, Strength(B) + NeighborBoost)
                 /\ concepts'[B].initial_weight = concepts'[B].memory_strength
                 /\ concepts'[B].last_revised_day = concepts[B].last_revised_day]_vars

(* "a" lists "b" twice and "b" lists "a"; "b" decayed from 1.0 to 0.8 on    *)
(* day 1 and the revision of "a" on day 1 made it 0.9: the one boost.       *)
C4_Witness ==
    /\ Present = Ids
    /\ total_revisions = 1
    /\ concepts["a"].prerequisites = <<"b", "b">>
    /\ concepts["b"].prerequisites = <<"a">>
    /\ current_day = 1
    /\ concepts["a"].last_revised_day = 1
    /\ concepts["b"].last_revised_day = 0
    /\ concepts["b"].memory_strength = 9
    /\ concepts["b"].initial_weight = 9

(* C5, as claimed: for distinct concepts A and B where A lists B as a       *)
(* prerequisite and B does not list A, a successful reviseConcept(B)        *)
(* leaves A's memory_strength, initial_weight and last_revised_day as they  *)
(* were.                                                                    *)
C5_DependentUntouched ==
    [][\A A \in Ids, B \in Ids :
          (A # B /\ A \in Present /\ B \in Present /\ Lists(A, B) /\ ~Lists(B, A)
                 /\ SomeRevision(B))
              => concepts'[A] = concepts[A]]_vars

(* C5, amended: under the same conditions a successful reviseConcept(B)     *)
(* sets A.memory_strength to min(1.0, old + 0.1), sets A.initial_weight to  *)
(* that value and leaves A.last_revised_day unchanged.                      *)
C5_DependentBoosted ==
    [][\A A \in Ids, B \in Ids :
          (A # B /\ A \in Present /\ B \in Present /\ Lists(A, B) /\ ~Lists(B, A)
                 /\ SomeRevision(B))
              => /\ concepts'[A].memory_strength = Min2(MaxStrength, Strength(A) + NeighborBoost)
                 /\ concepts'[A].initial_weight = concepts'[A].memory_strength
                 /\ concepts'[A].last_revised_day = concepts[A].last_revised_day]_vars

(* "b" lists "a", "a" lists nothing; "b" decayed from 1.0 to 0.8 on day 1   *)
(* and the revision of "a" on day 1 made it 0.9.                            *)
C5_Witness ==
    /\ Present = Ids
    /\ total_revisions = 1
    /\ concepts["a"].prerequisites = <<>>
    /\ concepts["b"].prerequisites = <<"a">>
    /\ current_day = 1
    /\ concepts["a"].last_revised_day = 1
    /\ concepts["b"].last_revised_day = 0
    /\ concepts["b"].memory_strength = 9
    /\ concepts["b"].initial_weight = 9

(* C6: in every reachable state every concept's memory_strength lies in     *)
(* [0.1, 1.0], also directly after insertConcept.                           *)
C6_StrengthInRange ==
    \A id \in Present : Strength(id) \in MinStrength .. MaxStrength

(* C7: for every concept T of the graph and every prerequisite list T may   *)
(* have (its own id included), a successful reviseConcept(T, boost) leaves  *)
(* T with memory_strength = min(1.0, old + boost), initial_weight equal to  *)
(* it and last_revised_day = current_day, and adds 1 to total_revisions.    *)
C7_TargetBoostedByBoost ==
    [][\A T \in Ids, b \in Boosts :
          (T \in Present /\ ReviseConcept(T, b))
              => /\ concepts'[T].memory_strength = Min2(MaxStrength, Strength(T) + b)
                 /\ concepts'[T].initial_weight = concepts'[T].memory_strength
                 /\ concepts'[T].last_revised_day = current_day
                 /\ total_revisions' = total_revisions + 1]_vars

(* C8: right after updateMemoryStrengths() returns, also when               *)
(* simulateTimePassage called it, every concept's memory_strength is        *)
(* clamp(initial_weight * exp(-lambda * (current_day - last_revised_day)),  *)
(* 0.1, 1.0) for the graph's current_day and lambda, and no concept's       *)
(* initial_weight or last_revised_day has changed.                          *)
(* "Recomputation => the concepts are as claimed", the conclusion tested    *)
(* first.                                                                   *)
C8_RecomputedStrength ==
    [][\/ \A id \in Present :
              /\ id \in DOMAIN concepts'
              /\ concepts'[id].memory_strength =
                    Clamp((concepts[id].initial_weight
                             * ExpNeg(lambda', current_day' - concepts[id].last_revised_day))
                            \div 100,
                          MinStrength, MaxStrength)
              /\ concepts'[id].initial_weight = concepts[id].initial_weight
              /\ concepts'[id].last_revised_day = concepts[id].last_revised_day
       \/ ~Recomputation]_vars

(* a concept of weight 1.0 of day 0 is 0.8 on day 1 at rate 0.15, and one   *)
(* of weight 0.0 is clamped to 0.1                                          *)
C8_Witness ==
    /\ Present = Ids
    /\ current_day = 1
    /\ lambda = DefaultDecayRate
    /\ concepts["a"].initial_weight = MaxStrength
    /\ concepts["a"].last_revised_day = 0
    /\ concepts["a"].memory_strength = 8
    /\ concepts["b"].initial_weight = 0
    /\ concepts["b"].memory_strength = MinStrength

(* C9: for a fixed lambda >= 0 and a concept inserted with initial_weight   *)
(* in [0.0, 1.0], along a run that only advances the day and revises        *)
(* nothing, memory_strength never increases from one state to the next,     *)
(* starting from its value right after insertConcept. On such a run the     *)
(* concept is as insertConcept left it (memory_strength = initial_weight,   *)
(* inserted today) or as the last recomputation left it.                    *)
AsInsertedOrDecayed(id) ==
    \/ /\ Strength(id) = concepts[id].initial_weight
       /\ concepts[id].last_revised_day = current_day
    \/ Strength(id) = calculateMemory(concepts[id], current_day, lambda)

C9_DecayNeverIncreases ==
    [][\A id \in Ids, d \in DaySteps :
          (id \in Present /\ total_revisions = 0 /\ lambda >= 0 /\ d >= 0
                 /\ AsInsertedOrDecayed(id) /\ SimulateTimePassage(d))
              => concepts'[id].memory_strength <= Strength(id)]_vars

(* C10: with n concepts, getTopRevisionRecommendations(count) returns       *)
(* max(0, min(count, n)) pairwise distinct ids of concepts of the graph, in *)
(* non-decreasing order of memory_strength, and no concept left out is      *)
(* weaker than a returned one.                                              *)
C10_TopAreTheWeakest ==
    \A order \in Orders(Present), count \in Counts :
        LET r == getTopRevisionRecommendations(concepts, order, count)
            n == Cardinality(Present)
        IN  /\ Len(r) = Max2(0, Min2(count, n))
            /\ \A i \in 1 .. Len(r) : r[i] \in Present
            /\ \A i, j \in 1 .. Len(r) : i # j => r[i] # r[j]
            /\ \A i, j \in 1 .. Len(r) : i < j => Strength(r[i]) <= Strength(r[j])
            /\ \A i \in 1 .. Len(r) :
                  \A x \in Present :
                      (\A j \in 1 .. Len(r) : r[j] # x) => Strength(x) >= Strength(r[i])

(* two concepts, the map visits the stronger first and the call returns the *)
(* weaker one alone                                                         *)
C10_Witness ==
    /\ Present = Ids
    /\ Strength("a") > Strength("b")
    /\ getTopRevisionRecommendations(concepts, <<"a", "b">>, 1) = <<"b">>
    /\ getTopRevisionRecommendations(concepts, <<"a", "b">>, 3) = <<"b", "a">>

(* A call of any of the seven queries *)
Query ==
    \/ GetNextRevisionRecommendation
    \/ \E n \in Counts : GetTopRevisionRecommendations(n)
    \/ GetAverageMemoryStrength
    \/ GetUrgentCount
    \/ GetTotalConcepts
    \/ GetTotalRevisions
    \/ GetCurrentDay

(* C11: every query (getNextRevisionRecommendation,                         *)
(* getTopRevisionRecommendations, getAverageMemoryStrength, getUrgentCount, *)
(* getTotalConcepts, getTotalRevisions, getCurrentDay) leaves the concepts, *)
(* the order and contents of the priority structure, current_day, lambda    *)
(* and total_revisions as they were.                                        *)
C11_QueriesChangeNothing == [][Query => UNCHANGED graphState]_vars

(* both concepts are in the graph with an entry of an overwritten "a" still *)
(* in the heap, and the queries have something to say: "a" is the          *)
(* recommendation, one concept is urgent, the average is 0.5               *)
C11_Witness ==
    /\ Present = Ids
    /\ Len(priority_queue) = 3
    /\ error = NoError
    /\ getNextRevisionRecommendation(priority_queue).id = "a"
    /\ getTopRevisionRecommendations(concepts, <<"b", "a">>, 2) = <<"a", "b">>
    /\ getUrgentCount(concepts) = 1
    /\ getAverageMemoryStrength(concepts, <<"a", "b">>) = 5
    /\ getTotalConcepts(concepts) = 2
    /\ getTotalRevisions(total_revisions) = 0
    /\ getCurrentDay(current_day) = 1

(* C12: the only graph operation that can fail is reviseConcept on an id    *)
(* that is not in the graph, and no graph operation raises "Heap is empty". *)
(* On the empty graph getNextRevisionRecommendation returns the empty id,   *)
(* getAverageMemoryStrength 0.0, getUrgentCount 0 and                       *)
(* getTopRevisionRecommendations(count) the empty list.                     *)
C12_OnlyUnknownIdFails ==
    /\ error \in {NoError} \cup {NotFound(id) : id \in Ids \ Present}
    /\ Present = {} =>
          /\ getNextRevisionRecommendation(priority_queue) = [err |-> NoError, id |-> ""]
          /\ getAverageMemoryStrength(concepts, <<>>) = 0
          /\ getUrgentCount(concepts) = 0
          /\ \A n \in Counts : getTopRevisionRecommendations(concepts, <<>>, n) = <<>>

(* the empty graph, with "a" just asked to be revised *)
C12_Witness ==
    /\ Present = {}
    /\ priority_queue = <<>>
    /\ error = NotFound("a")

(* C13: current_day never decreases, whatever operations are called,        *)
(* simulateTimePassage(days) with any integer the command layer accepts     *)
(* included.                                                                *)
C13_DayNeverDecreases == [][current_day' >= current_day]_vars

(* C14: after any public operation every entry (id, s) of the heap names a  *)
(* concept of the graph and s is that concept's current memory_strength.    *)
C14_EntriesAreCurrent ==
    \A i \in 1 .. Len(priority_queue) :
        /\ priority_queue[i].concept_id \in Present
        /\ priority_queue[i].memory_strength = Strength(priority_queue[i].concept_id)

(* C15: after any sequence of insert, extractMin, updateKey (to a lower or  *)
(* a higher strength, of an id in the heap or not) and rebuild, the entry   *)
(* at (i - 1) / 2 is no stronger than the entry at i, for every i > 0.      *)
C15_HeapOrder ==
    \A i \in 1 .. Len(priority_queue) - 1 :
        At(priority_queue, (i - 1) \div 2).memory_strength
            <= At(priority_queue, i).memory_strength

(* four entries under a root of strength 0, the left child stronger than   *)
(* the right one                                                            *)
C15_Witness ==
    /\ Len(priority_queue) = 4
    /\ At(priority_queue, 0).memory_strength = 0
    /\ At(priority_queue, 1).memory_strength = 2
    /\ At(priority_queue, 2).memory_strength = 1
    /\ At(priority_queue, 3).memory_strength = 2
    /\ {priority_queue[i].concept_id : i \in 1 .. 4} = Ids

(* How many times `node` is in the array h *)
EntryCount(h, node) == Cardinality({k \in 1 .. Len(h) : h[k] = node})

Entries(h) == {h[k] : k \in 1 .. Len(h)}

(* h2 holds the entries of h1 but for one copy of `node` *)
IsWithoutOne(h2, h1, node) ==
    /\ Len(h2) = Len(h1) - 1
    /\ \A n \in Entries(h1) :
           EntryCount(h2, n) = EntryCount(h1, n) - (IF n = node THEN 1 ELSE 0)

(* the strengths of the roots that extractMin takes out until h is empty *)
RECURSIVE drained(_)
drained(h) ==
    IF Len(h) = 0 THEN <<>>
    ELSE <<At(h, 0).memory_strength>> \o drained(extractMin(h).heap)

DrainsInOrder ==
    LET d == drained(priority_queue)
    IN  /\ Len(d) = Len(priority_queue)
        /\ \A i \in 1 .. Len(d) - 1 : d[i] <= d[i + 1]

ExtractMinRemovesAMinimum ==
    HeapExtractMin =>
        IF Len(priority_queue) = 0
        THEN /\ error' = HeapIsEmpty
             /\ priority_queue' = <<>>
        ELSE /\ error' = NoError
             /\ peekMin(priority_queue) =
                    [err |-> NoError, id |-> extractMin(priority_queue).id]
             /\ \E i \in 1 .. Len(priority_queue) :
                    /\ priority_queue[i].concept_id = extractMin(priority_queue).id
                    /\ \A j \in 1 .. Len(priority_queue) :
                           priority_queue[i].memory_strength
                               <= priority_queue[j].memory_strength
                    /\ IsWithoutOne(priority_queue', priority_queue, priority_queue[i])

PeekMinChangesNothing ==
    HeapPeekMin =>
        /\ UNCHANGED graphState
        /\ error' = IF Len(priority_queue) = 0 THEN HeapIsEmpty ELSE NoError

(* C16: on a non-empty MinHeap extractMin returns the id of an entry whose  *)
(* strength is minimal and removes exactly that entry, the other entries    *)
(* staying as a multiset, and peekMin returns the same id and changes       *)
(* nothing; on an empty MinHeap both fail with "Heap is empty" and leave it *)
(* empty; repeated extractMin takes the entries out in non-decreasing       *)
(* order of strength.                                                       *)
C16_ExtractMinTakesTheMinimum ==
    /\ []DrainsInOrder
    /\ [][ExtractMinRemovesAMinimum /\ PeekMinChangesNothing]_vars

(* four entries, two of them of the minimal strength 0 under different ids, *)
(* the last entry stronger than the right child: extractMin returns "b"     *)
(* and the entry moved to the root sinks to the right                       *)
C16_Witness ==
    /\ Len(priority_queue) = 4
    /\ extractMin(priority_queue).id = "b"
    /\ At(priority_queue, 2) = HeapNode("a", 0)
    /\ At(priority_queue, 1).memory_strength = 2
    /\ At(priority_queue, 3).memory_strength = 2
    /\ extractMin(priority_queue).heap[1] = HeapNode("a", 0)
    /\ drained(priority_queue) = <<0, 0, 2, 2>>

(* C17: a successful reviseConcept(T) leaves every concept C that is not T, *)
(* is not listed by T and does not list T with its memory_strength,         *)
(* initial_weight and last_revised_day, and leaves current_day and lambda   *)
(* as they were.                                                            *)
C17_OnlyNeighboursChange ==
    [][\A T \in Ids :
          (T \in Present /\ SomeRevision(T))
              => /\ current_day' = current_day
                 /\ lambda' = lambda
                 /\ \A C \in Present \ {T} :
                        (~Lists(T, C) /\ ~Lists(C, T))
                            => /\ concepts'[C].memory_strength = Strength(C)
                               /\ concepts'[C].initial_weight = concepts[C].initial_weight
                               /\ concepts'[C].last_revised_day =
                                      concepts[C].last_revised_day]_vars

(* neither concept lists the other; "a", inserted with weight 0.0 and       *)
(* recomputed to 0.1, was revised to 0.5 on day 1, and "b" is as its decay  *)
(* from 1.0 left it                                                         *)
C17_Witness ==
    /\ Present = Ids
    /\ total_revisions = 1
    /\ current_day = 1
    /\ concepts["a"].prerequisites = <<>>
    /\ concepts["b"].prerequisites = <<>>
    /\ concepts["a"].initial_weight = MinStrength + DefaultBoost
    /\ concepts["a"].memory_strength = MinStrength + DefaultBoost
    /\ concepts["a"].last_revised_day = 1
    /\ concepts["b"].initial_weight = MaxStrength
    /\ concepts["b"].memory_strength = 8
    /\ concepts["b"].last_revised_day = 0

(* What simulateTimePassage and updateMemoryStrengths make of current_day   *)
(* and the concepts                                                        *)
AfterSimulateTimePassage(st, days) ==
    [day |-> st.day + days, cs |-> Refreshed(st.cs, st.day + days, lambda)]

AfterUpdateMemoryStrengths(st) ==
    [day |-> st.day, cs |-> Refreshed(st.cs, st.day, lambda)]

(* C18: time passage adds up. From any reachable state                      *)
(* simulateTimePassage(a) followed by simulateTimePassage(b) gives the      *)
(* current_day and the concept fields that simulateTimePassage(a + b)       *)
(* gives, and updateMemoryStrengths twice gives what it gives once.         *)
C18_TimePassageAdds ==
    LET now == [day |-> current_day, cs |-> concepts]
    IN  /\ \A a \in DaySteps, b \in DaySteps :
               AfterSimulateTimePassage(AfterSimulateTimePassage(now, a), b)
                   = AfterSimulateTimePassage(now, a + b)
        /\ AfterUpdateMemoryStrengths(AfterUpdateMemoryStrengths(now))
               = AfterUpdateMemoryStrengths(now)

(* one day has passed at rate 0.15 over two unrevised concepts, one of them *)
(* decayed from 1.0 to 0.8 and the other one raised from 0.0 to the floor   *)
C18_Witness ==
    /\ Present = Ids
    /\ total_revisions = 0
    /\ current_day = 1
    /\ lambda = DefaultDecayRate
    /\ concepts["a"].initial_weight = MaxStrength
    /\ concepts["a"].last_revised_day = 0
    /\ concepts["a"].memory_strength = 8
    /\ concepts["b"].initial_weight = 0
    /\ concepts["b"].last_revised_day = 0
    /\ concepts["b"].memory_strength = MinStrength

(* C19: a recomputation on the day of a revision keeps the boosts: when     *)
(* updateMemoryStrengths runs right after a successful reviseConcept(T),    *)
(* current_day and lambda unchanged, the memory_strength of T and of every  *)
(* concept boosted as a neighbour of T is what reviseConcept left.          *)
C19_BoostSurvivesRecomputation ==
    [][\A T \in Ids :
          (T \in Present /\ SomeRevision(T))
              => \A x \in Present :
                    (x = T \/ Lists(T, x) \/ Lists(x, T))
                        => Refreshed(concepts', current_day', lambda')[x].memory_strength
                               = concepts'[x].memory_strength]_vars

====
